---- MODULE Spec2Model ----
(***************************************************************************)
(* dext: extract a docker image's layers into an output folder and,       *)
(* optionally, write an entrypoint script (src/src/main.rs).               *)
(*                                                                         *)
(* One run of main() is modelled as a sequential state machine.  Each      *)
(* action is one statement (or one I/O call) of main, fetch_archive,       *)
(* extract_layers, read_manifest, read_config or write_entrypoint.  The    *)
(* environment (daemon answers, export chunks, archive contents, I/O       *)
(* failures) is chosen nondeterministically where the code meets it.       *)
(***************************************************************************)
EXTENDS Integers, Sequences, FiniteSets, TLC

VARIABLES
    opts,        \* the parsed Opts struct (main.rs:21-48)
    initial,     \* the file system as it was before the run
    pc,          \* position of the run in main and its callees
    result,      \* "running", "ok", "err" (main returned Err), "panic"
    errKind,     \* which bail!/?/expect ended the run
    tmpExists,   \* the scratch TempDir exists on disk
    tmpCreated,  \* the scratch TempDir was created at some point of the run
    daemonLog,   \* the docker client calls made so far, in order
                 \* ("<call>_failed" for a call that returned an error)
    stream,      \* the items the export stream has yielded so far
    tarFile,     \* the archive file fetch_archive creates inside the scratch dir
    writer,      \* the BufWriter of fetch_archive: bytes not yet in tarFile
    userFile,    \* the caller-supplied archive (--file) exists on disk
    tarOpened,   \* which archive extract_layers opened for reading
    scratch,     \* what the outer unpack put into the scratch dir
    manifest,    \* the Manifest read_manifest returned
    layerIdx,    \* position of the for loop over manifest.layers (1-based)
    events,      \* what happened to the layer archives, in order:
                 \* <<"start", name>>, <<"end", name>>, <<"fail", name>>
    outDir,      \* the output directory: path -> file
    config,      \* the ImageConfig read_config returned
    w            \* the BufWriter of write_entrypoint: buffered lines

vars == <<opts, initial, pc, result, errKind, tmpExists, tmpCreated, daemonLog,
          stream, tarFile, writer, userFile, tarOpened, scratch, manifest, layerIdx,
          events, outDir, config, w>>

----------------------------------------------------------------------------
(* Bounds of the model *)

MaxChunks == 2      \* items the export stream yields at most
MaxLayers == 3      \* layers of a manifest at most
MaxManifests == 2   \* entries of the manifest.json array at most

----------------------------------------------------------------------------
(* Files *)

\* A text file is a sequence of lines, a line a sequence of string pieces.
Line(str) == <<str>>

NoFile == [exists |-> FALSE, data |-> <<>>, mode |-> 0]
MkFile(d, m) == [exists |-> TRUE, data |-> d, mode |-> m]

DefaultMode == 420          \* 0o644, the mode of a file created by File::create
ExecMode == 493             \* 0o755

EntrypointName == "entrypoint.sh"
Paths == {"f1", "f2", EntrypointName}

EmptyDir == [p \in Paths |-> NoFile]

\* Output directories the run may start from: empty, or holding older files.
InitialOutDirs ==
    { EmptyDir,
      [p \in Paths |-> IF p = "f1" THEN NoFile ELSE MkFile(<<Line("old")>>, DefaultMode)] }

----------------------------------------------------------------------------
(* Command line *)

None == <<>>
Some(x) == <<x>>

\* image_name: absent, a bare name, a name with a path separator, or a name
\* that carries a version separator.  Strings are sequences of characters.
ImageNames ==
    { None, Some(<<"i", "m", "g">>), Some(<<"l", "/", "i">>), Some(<<"i", ":", "v">>) }
ImageVersion == <<"l", "a", "t", "e", "s", "t">>
ImageFiles == { None, Some("image.tar") }

\* Mutant of contains: only the first character is looked at.
starts_with(str, ch) == str # <<>> /\ str[1] = ch

\* str::contains for a one-character pattern
contains(str, ch) == \E i \in DOMAIN str : str[i] = ch

OptsSet ==
    [image_name : ImageNames,
     image_file : ImageFiles,
     out_is_dir : BOOLEAN,
     write_entrypoint : BOOLEAN]

----------------------------------------------------------------------------
(* The image archive: manifest.json, the config blob and the layer archives *)

Entry(p, d) == [ok |-> TRUE, path |-> p, data |-> <<Line(d)>>, mode |-> DefaultMode]
Corrupt == [ok |-> FALSE, path |-> "f1", data |-> <<>>, mode |-> 0]

\* The layer archives an unpacked image may hold.  "gone.tar" is a name a
\* manifest may list although no such file is in the archive.
LayerNames == {"a.tar", "b.tar", "bad.tar", "gone.tar"}
LayerArchive(name) ==
    CASE name = "a.tar" -> <<Entry("f1", "a1"), Entry("f2", "a2")>>
      [] name = "b.tar" -> <<Entry("f1", "b1"), Entry(EntrypointName, "b3"), Entry("f1", "b1x")>>
      [] name = "bad.tar" -> <<Entry("f2", "x2"), Corrupt, Entry("f1", "x1")>>
      [] OTHER -> <<>>
LayerPresent(name) == name # "gone.tar"

LayerSeqs(n) == UNION { [1..k -> LayerNames] : k \in 0..n }
MkManifest(l) == [config |-> "cfg.json", layers |-> l]
Manifests == { MkManifest(l) : l \in LayerSeqs(MaxLayers) }
NoManifest == [config |-> "", layers |-> <<>>]

\* manifest.json as found in the scratch dir: absent, not JSON of the
\* expected shape, or an array of manifests.
SomeManifests == { MkManifest(<<"a.tar">>), MkManifest(<<"b.tar", "a.tar">>) }
ManifestFiles ==
    { [kind |-> "missing", entries |-> <<>>],
      [kind |-> "malformed", entries |-> <<>>] }
    \cup { [kind |-> "array", entries |-> <<m>>] : m \in Manifests }
    \cup { [kind |-> "array", entries |-> e] :
             e \in UNION { [1..k -> SomeManifests] : k \in (0..MaxManifests) \ {1} } }

NoScratch == [unpacked |-> FALSE, manifest_json |-> [kind |-> "missing", entries |-> <<>>]]

----------------------------------------------------------------------------
(* The export stream *)

\* A chunk is a sequence of bytes; the stream may also yield an error.
Chunks == { <<1>>, <<2, 3>> }
StreamErr == <<-1>>
IsErr(item) == item = StreamErr

RECURSIVE Flatten(_)
Flatten(ss) == IF ss = <<>> THEN <<>> ELSE Head(ss) \o Flatten(Tail(ss))

----------------------------------------------------------------------------
(* How a run ends *)

\* Mutant of DropTempDir: the directory is left behind.
LeakTempDir == UNCHANGED <<tmpExists, tarFile>>

\* Drop of tmp (tempdir::TempDir): the scratch dir and all it holds is removed.
DropTempDir ==
    /\ tmpExists' = FALSE
    /\ tarFile' = NoFile

\* bail!(..) or `?` on an Err: main returns Err; its locals are dropped.
Bail(kind) ==
    /\ pc' = "done"
    /\ result' = "err"
    /\ errKind' = kind
    /\ DropTempDir

\* expect() on an Err: the panic unwinds main; its locals are dropped.
Panic(kind) ==
    /\ pc' = "done"
    /\ result' = "panic"
    /\ errKind' = kind
    /\ DropTempDir

Goto(l) == pc' = l /\ UNCHANGED <<result, errKind>>

----------------------------------------------------------------------------
Init ==
    /\ opts \in OptsSet
    /\ initial \in [outDir : InitialOutDirs, userFile : BOOLEAN]
    /\ pc = "main"
    /\ result = "running"
    /\ errKind = "none"
    /\ tmpExists = FALSE
    /\ tmpCreated = FALSE
    /\ daemonLog = <<>>
    /\ stream = <<>>
    /\ tarFile = NoFile
    /\ writer = <<>>
    /\ userFile = initial.userFile
    /\ tarOpened = "none"
    /\ scratch = NoScratch
    /\ manifest = NoManifest
    /\ layerIdx = 0
    /\ events = <<>>
    /\ outDir = initial.outDir
    /\ config = <<>>
    /\ w = <<>>

----------------------------------------------------------------------------
(* main, lines 51-86 *)

\* Mutant of CheckOutPath: the output path is not looked at.
CheckOutPathSkipped ==
    /\ pc = "main"
    /\ Goto("tempdir")
    /\ UNCHANGED <<opts, initial, writer, tmpExists, tmpCreated, daemonLog, stream, tarFile,
                   userFile, tarOpened, scratch, manifest, layerIdx, events, outDir,
                   config, w>>

\* main.rs:56-61
CheckOutPath ==
    /\ pc = "main"
    /\ IF ~opts.out_is_dir
         THEN Bail("not_a_directory")
         ELSE Goto("tempdir") /\ UNCHANGED <<tmpExists, tarFile>>
    /\ UNCHANGED <<opts, initial, writer, tmpCreated, daemonLog, stream, userFile,
                   tarOpened, scratch, manifest, layerIdx, events, outDir, config, w>>

\* main.rs:63
CreateTempDir ==
    /\ pc = "tempdir"
    /\ \E ok \in BOOLEAN :
         IF ok
           THEN /\ tmpExists' = TRUE
                /\ tmpCreated' = TRUE
                /\ Goto("select")
           ELSE /\ pc' = "done" /\ result' = "err" /\ errKind' = "tempdir"
                /\ UNCHANGED <<tmpExists, tmpCreated>>
    /\ UNCHANGED <<opts, initial, writer, daemonLog, stream, tarFile, userFile,
                   tarOpened, scratch, manifest, layerIdx, events, outDir, config, w>>

\* Mutant of SelectSource: with both given, the file wins.
SelectSourcePreferFile ==
    /\ pc = "select"
    /\ CASE opts.image_name # None /\ opts.image_file = None ->
              IF contains(opts.image_name[1], ":")
                THEN Bail("name_has_version")
                ELSE Goto("connect") /\ UNCHANGED <<tmpExists, tarFile>>
         [] opts.image_file # None ->
              Goto("open_tar") /\ UNCHANGED <<tmpExists, tarFile>>
         [] OTHER ->
              Bail("neither")
    /\ UNCHANGED <<opts, initial, writer, tmpCreated, daemonLog, stream, userFile,
                   tarOpened, scratch, manifest, layerIdx, events, outDir, config, w>>

\* main.rs:65-86, the match on (image_name, image_file)
SelectSource ==
    /\ pc = "select"
    /\ CASE opts.image_name # None /\ opts.image_file = None ->
              IF contains(opts.image_name[1], ":")
                THEN Bail("name_has_version")
                ELSE Goto("connect") /\ UNCHANGED <<tmpExists, tarFile>>
         [] opts.image_name = None /\ opts.image_file # None ->
              Goto("open_tar") /\ UNCHANGED <<tmpExists, tarFile>>
         [] opts.image_name # None /\ opts.image_file # None ->
              Bail("both")
         [] OTHER ->
              Bail("neither")
    /\ UNCHANGED <<opts, initial, writer, tmpCreated, daemonLog, stream, userFile,
                   tarOpened, scratch, manifest, layerIdx, events, outDir, config, w>>

----------------------------------------------------------------------------
(* fetch_archive, lines 96-122 *)

\* main.rs:72, format!("{}:{}", image_name, opts.image_version)
image == opts.image_name[1] \o <<":">> \o ImageVersion

\* main.rs:97, format!("{image}.tar")
tar_name == image \o <<".", "t", "a", "r">>

\* main.rs:103, Docker::connect_with_local_defaults()?
Connect ==
    /\ pc = "connect"
    /\ \E ok \in BOOLEAN :
         IF ok THEN /\ daemonLog' = Append(daemonLog, "connect")
                    /\ Goto("inspect")
                    /\ UNCHANGED <<tmpExists, tarFile>>
               ELSE /\ daemonLog' = Append(daemonLog, "connect_failed")
                    /\ Bail("connect")
    /\ UNCHANGED <<opts, initial, writer, tmpCreated, stream, userFile,
                   tarOpened, scratch, manifest, layerIdx, events, outDir, config, w>>

\* Mutant of InspectImage: the answer of the existence check is not looked at.
InspectImageUnchecked ==
    /\ pc = "inspect"
    /\ \E found \in BOOLEAN :
         /\ daemonLog' = Append(daemonLog, IF found THEN "inspect" ELSE "inspect_failed")
         /\ Goto("export")
         /\ UNCHANGED <<tmpExists, tarFile>>
    /\ UNCHANGED <<opts, initial, writer, tmpCreated, stream, userFile,
                   tarOpened, scratch, manifest, layerIdx, events, outDir, config, w>>

\* main.rs:105, docker.inspect_image(image).await?
InspectImage ==
    /\ pc = "inspect"
    /\ \E found \in BOOLEAN :
         IF found THEN /\ daemonLog' = Append(daemonLog, "inspect")
                       /\ Goto("export")
                       /\ UNCHANGED <<tmpExists, tarFile>>
                  ELSE /\ daemonLog' = Append(daemonLog, "inspect_failed")
                       /\ Bail("inspect")
    /\ UNCHANGED <<opts, initial, writer, tmpCreated, stream, userFile,
                   tarOpened, scratch, manifest, layerIdx, events, outDir, config, w>>

\* main.rs:107, docker.export_image(image)
ExportImage ==
    /\ pc = "export"
    /\ daemonLog' = Append(daemonLog, "export")
    /\ Goto("create_tar")
    /\ UNCHANGED <<opts, initial, writer, tmpExists, tmpCreated, stream, tarFile, userFile,
                   tarOpened, scratch, manifest, layerIdx, events, outDir, config, w>>

\* main.rs:110, File::create(&tar_path)?  The scratch dir has no
\* subdirectories, so a tar_name with a path separator names a file in a
\* directory that does not exist and the create fails.
CreateTarFile ==
    /\ pc = "create_tar"
    /\ \E io_ok \in BOOLEAN :
         IF io_ok /\ ~contains(tar_name, "/")
           THEN /\ tarFile' = MkFile(<<>>, DefaultMode)
                /\ Goto("stream")
                /\ UNCHANGED tmpExists
           ELSE Bail("create_tar")
    /\ UNCHANGED <<opts, initial, writer, tmpCreated, daemonLog, stream, userFile,
                   tarOpened, scratch, manifest, layerIdx, events, outDir, config, w>>

\* Mutant of StreamChunk: the flush after the chunk is missing.
StreamChunkNoFlush ==
    /\ pc = "stream"
    /\ Len(stream) < MaxChunks
    /\ \E item \in Chunks \cup {StreamErr}, write_ok \in BOOLEAN :
         IF IsErr(item)
           THEN /\ Panic("error streaming data from docker")
                /\ writer' = <<>>
                /\ UNCHANGED stream
           ELSE IF ~write_ok
             THEN /\ Panic("error writing file to disk")
                  /\ writer' = <<>>
                  /\ UNCHANGED stream
             ELSE /\ stream' = Append(stream, item)
                  /\ writer' = writer \o item
                  /\ Goto("stream")
                  /\ UNCHANGED <<tmpExists, tarFile>>
    /\ UNCHANGED <<opts, initial, tmpCreated, daemonLog, userFile,
                   tarOpened, scratch, manifest, layerIdx, events, outDir, config, w>>

\* main.rs:112-118, the for_each closure run on one item of the stream:
\* expect() on the item, write_all into the BufWriter, flush of the
\* BufWriter to the file.  A panic drops the closure and its writer.
StreamChunk ==
    /\ pc = "stream"
    /\ Len(stream) < MaxChunks
    /\ \E item \in Chunks \cup {StreamErr}, write_ok \in BOOLEAN :
         IF IsErr(item)
           THEN /\ Panic("error streaming data from docker")
                /\ writer' = <<>>
                /\ UNCHANGED stream
           ELSE IF ~write_ok
             THEN /\ Panic("error writing file to disk")
                  /\ writer' = <<>>
                  /\ UNCHANGED stream
             ELSE LET written == writer \o item IN
                  /\ stream' = Append(stream, item)
                  /\ tarFile' = [tarFile EXCEPT !.data = @ \o written]
                  /\ writer' = <<>>
                  /\ Goto("stream")
                  /\ UNCHANGED tmpExists
    /\ UNCHANGED <<opts, initial, tmpCreated, daemonLog, userFile,
                   tarOpened, scratch, manifest, layerIdx, events, outDir, config, w>>

\* main.rs:119-121, the stream is exhausted: the closure and its writer are
\* dropped (the BufWriter writes out what it still holds) and
\* Ok(tar_path) is returned.
StreamEnd ==
    /\ pc = "stream"
    /\ tarFile' = [tarFile EXCEPT !.data = @ \o writer]
    /\ writer' = <<>>
    /\ Goto("open_tar")
    /\ UNCHANGED <<opts, initial, tmpExists, tmpCreated, daemonLog, stream,
                   userFile, tarOpened, scratch, manifest, layerIdx, events, outDir,
                   config, w>>

----------------------------------------------------------------------------
(* extract_layers, lines 124-150, and read_manifest, lines 162-178 *)

\* The archive main hands to extract_layers (main.rs:65-87): the file
\* fetch_archive wrote, or the caller's --file.
tar_path == IF opts.image_file = None THEN "fetched" ELSE "user"

\* main.rs:125, File::open(tar_path)?
OpenTar ==
    /\ pc = "open_tar"
    /\ IF (tar_path = "fetched" /\ tarFile.exists) \/ (tar_path = "user" /\ userFile)
         THEN /\ tarOpened' = tar_path
              /\ Goto("unpack_tar")
              /\ UNCHANGED <<tmpExists, tarFile>>
         ELSE Bail("open_tar") /\ UNCHANGED tarOpened
    /\ UNCHANGED <<opts, initial, writer, tmpCreated, daemonLog, stream, userFile,
                   scratch, manifest, layerIdx, events, outDir, config, w>>

\* main.rs:126-128, archive.unpack(&tmp)?
UnpackTar ==
    /\ pc = "unpack_tar"
    /\ \/ \E mf \in ManifestFiles :
            /\ scratch' = [unpacked |-> TRUE, manifest_json |-> mf]
            /\ Goto("remove_tar")
            /\ UNCHANGED <<tmpExists, tarFile>>
       \/ Bail("unpack_tar") /\ UNCHANGED scratch
    /\ UNCHANGED <<opts, initial, writer, tmpCreated, daemonLog, stream, userFile,
                   tarOpened, manifest, layerIdx, events, outDir, config, w>>

\* main.rs:130, fs::remove_file(&tar_path)?
RemoveTar ==
    /\ pc = "remove_tar"
    /\ \E ok \in BOOLEAN :
         IF ok
           THEN /\ IF tar_path = "fetched"
                     THEN tarFile' = NoFile /\ UNCHANGED userFile
                     ELSE userFile' = FALSE /\ UNCHANGED tarFile
                /\ Goto("read_manifest")
                /\ UNCHANGED tmpExists
           ELSE Bail("remove_tar") /\ UNCHANGED userFile
    /\ UNCHANGED <<opts, initial, writer, tmpCreated, daemonLog, stream,
                   tarOpened, scratch, manifest, layerIdx, events, outDir, config, w>>

Ok(v) == [ok |-> TRUE, err |-> "none", value |-> v]
Err(e) == [ok |-> FALSE, err |-> e, value |-> NoManifest]

\* Mutant of read_manifest: the last entry is taken whatever the count.
read_manifest_any(file) ==
    IF file.kind # "array" \/ file.entries = <<>>
      THEN Err("parse_manifest")
      ELSE Ok(file.entries[Len(file.entries)])

\* Mutant of read_manifest: the first entry is taken if there is one.
read_manifest_first(file) ==
    IF file.kind # "array" \/ file.entries = <<>>
      THEN Err("manifest_count")
      ELSE Ok(file.entries[1])

\* main.rs:162-178: parse the array, insist on one entry, pop it.
read_manifest(file) ==
    IF file.kind # "array"
      THEN Err("parse_manifest")
      ELSE IF Len(file.entries) # 1
        THEN Err("manifest_count")
        ELSE Ok(file.entries[Len(file.entries)])

\* main.rs:132-137, File::open(mf_path)? and read_manifest(..)?
ReadManifest ==
    /\ pc = "read_manifest"
    /\ IF scratch.manifest_json.kind = "missing"
         THEN Bail("open_manifest") /\ UNCHANGED <<manifest, layerIdx>>
         ELSE LET r == read_manifest(scratch.manifest_json) IN
              IF r.ok
                THEN /\ manifest' = r.value
                     /\ layerIdx' = 1
                     /\ Goto("loop")
                     /\ UNCHANGED <<tmpExists, tarFile>>
                ELSE Bail(r.err) /\ UNCHANGED <<manifest, layerIdx>>
    /\ UNCHANGED <<opts, initial, writer, tmpCreated, daemonLog, stream, userFile,
                   tarOpened, scratch, events, outDir, config, w>>

\* Mutant of Extract: a file that is already there is kept.
RECURSIVE ExtractKeep(_, _)
ExtractKeep(dir, entries) ==
    IF entries = <<>>
      THEN dir
      ELSE ExtractKeep(IF dir[Head(entries).path].exists
                         THEN dir
                         ELSE [dir EXCEPT ![Head(entries).path] =
                                  MkFile(Head(entries).data, Head(entries).mode)],
                       Tail(entries))

\* tar::Archive::unpack on a directory: each entry, in archive order,
\* creates or overwrites the file at its path.
RECURSIVE Extract(_, _)
Extract(dir, entries) ==
    IF entries = <<>>
      THEN dir
      ELSE Extract([dir EXCEPT ![Head(entries).path] =
                        MkFile(Head(entries).data, Head(entries).mode)],
                   Tail(entries))

\* The number of leading entries of an archive that can be extracted.
Extractable(entries) ==
    IF \E i \in DOMAIN entries : ~entries[i].ok
      THEN (CHOOSE i \in DOMAIN entries :
               /\ ~entries[i].ok
               /\ \A j \in 1..(i - 1) : entries[j].ok) - 1
      ELSE Len(entries)

\* Mutant of layer: the layers are taken from the top of the image down.
layer_reversed == manifest.layers[Len(manifest.layers) + 1 - layerIdx]

\* main.rs:139, the loop variable of `for layer in manifest.layers.iter()`
layer == manifest.layers[layerIdx]

\* main.rs:139-145, the loop takes the next layer and opens its archive
OpenLayer ==
    /\ pc = "loop"
    /\ layerIdx <= Len(manifest.layers)
    /\ IF LayerPresent(layer)
         THEN /\ events' = Append(events, <<"start", layer>>)
              /\ Goto("unpack_layer")
              /\ UNCHANGED <<tmpExists, tarFile>>
         ELSE /\ events' = Append(events, <<"fail", layer>>)
              /\ Bail("open_layer")
    /\ UNCHANGED <<opts, initial, writer, tmpCreated, daemonLog, stream, userFile,
                   tarOpened, scratch, manifest, layerIdx, outDir, config, w>>

\* Mutant of UnpackLayer: a failed unpack is passed over and the loop goes on.
UnpackLayerIgnoreError ==
    /\ pc = "unpack_layer"
    /\ LET entries == LayerArchive(layer) IN
       \E n \in 0..Extractable(entries) :
         /\ outDir' = Extract(outDir, SubSeq(entries, 1, n))
         /\ events' = Append(events, <<IF n = Len(entries) THEN "end" ELSE "fail", layer>>)
         /\ layerIdx' = layerIdx + 1
         /\ Goto("loop")
         /\ UNCHANGED <<tmpExists, tarFile>>
    /\ UNCHANGED <<opts, initial, writer, tmpCreated, daemonLog, stream, userFile,
                   tarOpened, scratch, manifest, config, w>>

\* main.rs:146-147, archive.unpack(out_path)? and on to the next iteration.
\* The unpack may stop at a corrupt entry or on an I/O error, leaving the
\* entries before it extracted.
UnpackLayer ==
    /\ pc = "unpack_layer"
    /\ LET entries == LayerArchive(layer) IN
       \E n \in 0..Extractable(entries) :
         /\ outDir' = Extract(outDir, SubSeq(entries, 1, n))
         /\ IF n = Len(entries)
              THEN /\ events' = Append(events, <<"end", layer>>)
                   /\ layerIdx' = layerIdx + 1
                   /\ Goto("loop")
                   /\ UNCHANGED <<tmpExists, tarFile>>
              ELSE /\ events' = Append(events, <<"fail", layer>>)
                   /\ Bail("unpack_layer")
                   /\ UNCHANGED layerIdx
    /\ UNCHANGED <<opts, initial, writer, tmpCreated, daemonLog, stream, userFile,
                   tarOpened, scratch, manifest, config, w>>

\* main.rs:147-149 and 87, the loop is exhausted: Ok(manifest)
LayersDone ==
    /\ pc = "loop"
    /\ layerIdx > Len(manifest.layers)
    /\ Goto("check_entrypoint")
    /\ UNCHANGED <<opts, initial, writer, tmpExists, tmpCreated, daemonLog, stream, tarFile,
                   userFile, tarOpened, scratch, manifest, layerIdx, events, outDir,
                   config, w>>

----------------------------------------------------------------------------
(* main, lines 89-93, read_config, lines 197-200, write_entrypoint, 202-236 *)

\* The config blob as found in the scratch dir.
ImageConfigs ==
    [env : { <<>>, <<"FOO=bar", "B=2">> },
     cmd : { <<>>, <<"/bin/echo", "hi">> },
     working_dir : { "/app" }]
NoConfig == [env |-> <<>>, cmd |-> <<>>, working_dir |-> ""]
ConfigFiles ==
    { [kind |-> k, value |-> NoConfig] : k \in {"missing", "malformed", "no_field"} }
    \cup { [kind |-> "valid", value |-> c] : c \in ImageConfigs }

\* main.rs:197-200, serde_json::from_reader
read_config(file) ==
    IF file.kind = "valid"
      THEN [ok |-> TRUE, err |-> "none", value |-> file.value]
      ELSE [ok |-> FALSE, err |-> "parse_config", value |-> NoConfig]

\* main.rs:224-231, the lines written with writeln!, in order
RECURSIVE Lines(_)
Lines(strs) == IF strs = <<>> THEN <<>> ELSE <<Line(Head(strs))>> \o Lines(Tail(strs))

\* Mutant of script: the cd line is written after the command lines.
script_cd_last(cfg) ==
    <<Line("#!/bin/bash")>>
      \o Lines(cfg.env)
      \o Lines(cfg.cmd)
      \o << <<"cd ", cfg.working_dir>> >>

script(cfg) ==
    <<Line("#!/bin/bash")>>
      \o Lines(cfg.env)
      \o << <<"cd ", cfg.working_dir>> >>
      \o Lines(cfg.cmd)

\* Drop of main's locals on the Ok path (main.rs:93-94)
ReturnOk ==
    /\ pc' = "done"
    /\ result' = "ok"
    /\ UNCHANGED errKind
    /\ DropTempDir

\* Mutant of CheckEntrypoint: the entrypoint is written whatever the flag says.
CheckEntrypointAlways ==
    /\ pc = "check_entrypoint"
    /\ Goto("read_config")
    /\ UNCHANGED <<opts, initial, writer, tmpExists, tmpCreated, daemonLog, stream, tarFile,
                   userFile, tarOpened, scratch, manifest, layerIdx, events, outDir,
                   config, w>>

\* main.rs:89-93
CheckEntrypoint ==
    /\ pc = "check_entrypoint"
    /\ IF opts.write_entrypoint
         THEN Goto("read_config") /\ UNCHANGED <<tmpExists, tarFile>>
         ELSE ReturnOk
    /\ UNCHANGED <<opts, initial, writer, tmpCreated, daemonLog, stream, userFile,
                   tarOpened, scratch, manifest, layerIdx, events, outDir, config, w>>

\* Mutant of ReadConfig: the entrypoint file is created before the config is read.
ReadConfigAfterCreate ==
    /\ pc = "read_config"
    /\ outDir' = [outDir EXCEPT ![EntrypointName] =
                     MkFile(<<>>, IF @.exists THEN @.mode ELSE DefaultMode)]
    /\ \E file \in ConfigFiles :
         IF file.kind = "missing"
           THEN Bail("open_config") /\ UNCHANGED config
           ELSE LET r == read_config(file) IN
                IF r.ok
                  THEN /\ config' = Some(r.value)
                       /\ Goto("create_entrypoint")
                       /\ UNCHANGED <<tmpExists, tarFile>>
                  ELSE Bail(r.err) /\ UNCHANGED config
    /\ UNCHANGED <<opts, initial, writer, tmpCreated, daemonLog, stream, userFile,
                   tarOpened, scratch, manifest, layerIdx, events, w>>

\* main.rs:208-215, File::open(cfg)? and read_config(..)?
ReadConfig ==
    /\ pc = "read_config"
    /\ \E file \in ConfigFiles :
         IF file.kind = "missing"
           THEN Bail("open_config") /\ UNCHANGED config
           ELSE LET r == read_config(file) IN
                IF r.ok
                  THEN /\ config' = Some(r.value)
                       /\ Goto("create_entrypoint")
                       /\ UNCHANGED <<tmpExists, tarFile>>
                  ELSE Bail(r.err) /\ UNCHANGED config
    /\ UNCHANGED <<opts, initial, writer, tmpCreated, daemonLog, stream, userFile,
                   tarOpened, scratch, manifest, layerIdx, events, outDir, w>>

\* main.rs:217-222, File::create(&ep_file)?: creates the file, or truncates
\* the one that is there (keeping its mode).
CreateEntrypoint ==
    /\ pc = "create_entrypoint"
    /\ \E ok \in BOOLEAN :
         IF ok
           THEN /\ outDir' = [outDir EXCEPT ![EntrypointName] =
                                MkFile(<<>>, IF @.exists THEN @.mode ELSE DefaultMode)]
                /\ Goto("write_script")
                /\ UNCHANGED <<tmpExists, tarFile>>
           ELSE Bail("create_entrypoint") /\ UNCHANGED outDir
    /\ UNCHANGED <<opts, initial, writer, tmpCreated, daemonLog, stream, userFile,
                   tarOpened, scratch, manifest, layerIdx, events, config, w>>

\* Drop of the BufWriter w: what it still buffers is written to the file,
\* and an error of that write is discarded.
DropWriter(file, buffered) ==
    { [file EXCEPT !.data = @ \o buffered], file }

\* main.rs:224-231, the writeln! calls.  They fill the BufWriter; the first
\* `spilled` lines leave it for the file when the buffer runs full.  A
\* failed write ends the function with `?`, and w is dropped.
WriteScript ==
    /\ pc = "write_script"
    /\ LET lines == script(config[1]) IN
       \E spilled \in 0..Len(lines), ok \in BOOLEAN :
         IF ok
           THEN /\ outDir' = [outDir EXCEPT ![EntrypointName].data =
                                SubSeq(lines, 1, spilled)]
                /\ w' = SubSeq(lines, spilled + 1, Len(lines))
                /\ Goto("set_permissions")
                /\ UNCHANGED <<tmpExists, tarFile>>
           ELSE /\ spilled < Len(lines)
                /\ outDir' = [outDir EXCEPT ![EntrypointName].data =
                                SubSeq(lines, 1, spilled)]
                /\ w' = <<>>
                /\ Bail("write_entrypoint")
    /\ UNCHANGED <<opts, initial, writer, tmpCreated, daemonLog, stream, userFile,
                   tarOpened, scratch, manifest, layerIdx, events, config>>

\* main.rs:233, fs::set_permissions(&ep_file, from_mode(0o755))?
SetPermissions ==
    /\ pc = "set_permissions"
    /\ \E ok \in BOOLEAN :
         IF ok
           THEN /\ outDir' = [outDir EXCEPT ![EntrypointName].mode = ExecMode]
                /\ Goto("return")
                /\ UNCHANGED <<tmpExists, tarFile, w>>
           ELSE /\ \E f \in DropWriter(outDir[EntrypointName], w) :
                     outDir' = [outDir EXCEPT ![EntrypointName] = f]
                /\ w' = <<>>
                /\ Bail("set_permissions")
    /\ UNCHANGED <<opts, initial, writer, tmpCreated, daemonLog, stream, userFile,
                   tarOpened, scratch, manifest, layerIdx, events, config>>

\* main.rs:235-236 and 93: Ok(()), w goes out of scope, main returns Ok
WriteEntrypointOk ==
    /\ pc = "return"
    /\ \E f \in DropWriter(outDir[EntrypointName], w) :
         outDir' = [outDir EXCEPT ![EntrypointName] = f]
    /\ w' = <<>>
    /\ ReturnOk
    /\ UNCHANGED <<opts, initial, writer, tmpCreated, daemonLog, stream, userFile,
                   tarOpened, scratch, manifest, layerIdx, events, config>>

Next ==
    \/ CheckOutPath
    \/ CreateTempDir
    \/ SelectSource
    \/ Connect
    \/ InspectImage
    \/ ExportImage
    \/ CreateTarFile
    \/ StreamChunk
    \/ StreamEnd
    \/ OpenTar
    \/ UnpackTar
    \/ RemoveTar
    \/ ReadManifest
    \/ OpenLayer
    \/ UnpackLayer
    \/ LayersDone
    \/ CheckEntrypoint
    \/ ReadConfig
    \/ CreateEntrypoint
    \/ WriteScript
    \/ SetPermissions
    \/ WriteEntrypointOk

Spec == Init /\ [][Next]_vars

----------------------------------------------------------------------------
(* Where a run stands *)

AfterLayers ==
    {"check_entrypoint", "read_config", "create_entrypoint", "write_script",
     "set_permissions", "return"}
EntrypointErrs ==
    {"open_config", "parse_config", "create_entrypoint", "write_entrypoint",
     "set_permissions"}

\* The loop over the layers ran to its end.
Composited ==
    \/ pc \in AfterLayers
    \/ pc = "done" /\ (result = "ok" \/ errKind \in EntrypointErrs)

\* write_entrypoint has not touched the entrypoint file.
EntrypointUntouched ==
    \/ pc \in {"check_entrypoint", "read_config", "create_entrypoint"}
    \/ pc = "done" /\ result = "ok" /\ ~opts.write_entrypoint
    \/ pc = "done" /\ errKind \in {"open_config", "parse_config", "create_entrypoint"}

----------------------------------------------------------------------------
(* C1 *)

\* C1: the layers are unpacked strictly in manifest order, one at a time.
\* The log of layer events is always start L1, end L1, start L2, end L2, ...
\* with Lk the k-th layer of the manifest: a layer starts only when every
\* earlier one has ended, none is skipped or repeated, no two overlap; an
\* unpack is in progress exactly between its start and its end; and when the
\* loop has run to its end every layer has started and ended.
C1_LayersInManifestOrder ==
    /\ Len(events) <= 2 * Len(manifest.layers)
    /\ \A i \in DOMAIN events :
          /\ events[i][2] = manifest.layers[(i + 1) \div 2]
          /\ events[i][1] # "fail" =>
                events[i][1] = (IF i % 2 = 1 THEN "start" ELSE "end")
          /\ events[i][1] = "fail" => i = Len(events)
    /\ pc = "unpack_layer" =>
          /\ Len(events) = 2 * layerIdx - 1
          /\ events[Len(events)][1] = "start"
    /\ pc = "loop" => Len(events) = 2 * (layerIdx - 1)
    /\ Composited => Len(events) = 2 * Len(manifest.layers)

\* Three different layers were applied, the third is being unpacked.
C1_Witness ==
    /\ pc = "unpack_layer"
    /\ manifest.layers = <<"b.tar", "a.tar", "bad.tar">>
    /\ events = << <<"start", "b.tar">>, <<"end", "b.tar">>,
                   <<"start", "a.tar">>, <<"end", "a.tar">>,
                   <<"start", "bad.tar">> >>

----------------------------------------------------------------------------
(* C2 *)

HasPath(name, p) == \E i \in DOMAIN LayerArchive(name) : LayerArchive(name)[i].path = p

\* The version of path p a layer archive carries: its last entry for p.
VersionIn(name, p) ==
    LET es == LayerArchive(name)
        i == CHOOSE k \in DOMAIN es :
               /\ es[k].path = p
               /\ \A j \in DOMAIN es : es[j].path = p => j <= k
    IN MkFile(es[i].data, es[i].mode)

\* The union computed by hand: the version of the last layer of the
\* manifest that has the path, else what the directory held before.
UnionOfLayers(p) ==
    LET having == { k \in DOMAIN manifest.layers : HasPath(manifest.layers[k], p) }
    IN IF having = {}
         THEN initial.outDir[p]
         ELSE VersionIn(manifest.layers[CHOOSE k \in having : \A j \in having : j <= k], p)

\* C2: when the compositor has applied all layers of the manifest, every
\* path of the output directory holds the version of the last layer, in
\* manifest order, that contains the path (and what was there before the run
\* if no layer contains it).  The entrypoint path is compared until
\* write_entrypoint creates its file there.
C2_LaterLayersOverride ==
    Composited =>
        \A p \in Paths :
            (p # EntrypointName \/ EntrypointUntouched) => outDir[p] = UnionOfLayers(p)

\* Layers [a.tar, b.tar] both write f1 and the output holds b.tar's version.
C2_Witness ==
    /\ pc = "check_entrypoint"
    /\ manifest.layers = <<"a.tar", "b.tar">>
    /\ HasPath("a.tar", "f1") /\ HasPath("b.tar", "f1")
    /\ outDir["f1"] = VersionIn("b.tar", "f1")
    /\ outDir["f1"] # VersionIn("a.tar", "f1")

----------------------------------------------------------------------------
(* C3 *)

\* read_manifest has run on a manifest.json that parsed as an array.
ManifestArrayRead ==
    /\ scratch.unpacked
    /\ scratch.manifest_json.kind = "array"
    /\ pc # "remove_tar" /\ pc # "read_manifest"
    /\ ~(pc = "done" /\ errKind = "remove_tar")

\* C3: read_manifest fails with the count error whenever the parsed array
\* has 0 or at least 2 entries, and then no manifest is returned and no
\* layer is touched; it returns the single entry exactly when the array has
\* one entry.
C3_ManifestCount ==
    LET entries == scratch.manifest_json.entries IN
    /\ ManifestArrayRead /\ Len(entries) # 1 =>
          /\ pc = "done" /\ result = "err" /\ errKind = "manifest_count"
          /\ manifest = NoManifest
          /\ events = <<>>
    /\ ManifestArrayRead /\ Len(entries) = 1 =>
          /\ manifest = entries[1]
          /\ errKind # "manifest_count"
    /\ manifest # NoManifest =>
          /\ scratch.manifest_json.kind = "array"
          /\ entries = <<manifest>>

\* A manifest.json with two entries was rejected.
C3_Witness ==
    /\ pc = "done"
    /\ errKind = "manifest_count"
    /\ Len(scratch.manifest_json.entries) = 2

----------------------------------------------------------------------------
(* C4 *)

ExactlyOneSource == (opts.image_name # None) # (opts.image_file # None)

\* The run went past the match on (image_name, image_file).
Proceeded ==
    \/ pc \notin {"main", "tempdir", "select", "done"}
    \/ daemonLog # <<>>
    \/ tarOpened # "none"
    \/ scratch.unpacked

\* C4: the run goes on to acquiring and unpacking only when exactly one of
\* image name and archive file is given.  With both or neither the daemon
\* is never called, no archive is opened, the output directory stays as it
\* was, and the run ends with an error: the usage error of the match once
\* the run got that far.
C4_ExactlyOneSource ==
    /\ Proceeded => ExactlyOneSource
    /\ ~ExactlyOneSource =>
          /\ daemonLog = <<>>
          /\ tarOpened = "none"
          /\ ~tarFile.exists
          /\ userFile = initial.userFile
          /\ outDir = initial.outDir
          /\ pc = "done" =>
                /\ result = "err"
                /\ tmpCreated =>
                      errKind = (IF opts.image_name = None THEN "neither" ELSE "both")

\* Both an image name and a file were given and the run ended in the usage error.
C4_Witness ==
    /\ opts.image_name # None /\ opts.image_file # None
    /\ pc = "done" /\ result = "err" /\ errKind = "both"

----------------------------------------------------------------------------
(* C5 *)

\* C5: when the image name holds the version separator ':' the daemon is
\* never called (no connect, no inspect, no export), nothing is fetched or
\* unpacked, and the run ends with an error.
C5_VersionInNameRejected ==
    (opts.image_name # None /\ \E i \in DOMAIN opts.image_name[1] : opts.image_name[1][i] = ":") =>
        /\ daemonLog = <<>>
        /\ ~Proceeded
        /\ ~tarFile.exists
        /\ pc = "done" => result = "err"

\* An image name with a version, and no file, was rejected by the check of the name.
C5_Witness ==
    /\ opts.image_name = Some(<<"i", ":", "v">>)
    /\ opts.image_file = None
    /\ pc = "done" /\ errKind = "name_has_version"
    /\ daemonLog = <<>>

----------------------------------------------------------------------------
(* C6 *)

\* C6: when the output path is not a directory the run fails before any
\* acquisition: the daemon is never called, no archive is opened or
\* created, the scratch directory is never created, and the run ends with
\* the "not a directory" error.
C6_OutPathCheckedFirst ==
    ~opts.out_is_dir =>
        /\ daemonLog = <<>>
        /\ tarOpened = "none"
        /\ ~tarFile.exists
        /\ ~tmpCreated /\ ~tmpExists
        /\ ~Proceeded
        /\ userFile = initial.userFile
        /\ pc = "done" => result = "err" /\ errKind = "not_a_directory"

\* A run with a valid image name and an output path that is no directory has ended.
C6_Witness ==
    /\ ~opts.out_is_dir
    /\ opts.image_name = Some(<<"i", "m", "g">>) /\ opts.image_file = None
    /\ pc = "done" /\ errKind = "not_a_directory"

----------------------------------------------------------------------------
(* C7 *)

\* C7: the scratch directory exists only after it was created, and once the
\* run has ended it is gone, together with the archive fetched into it,
\* whether main returned Ok, returned an error, or panicked while consuming
\* the export stream.
C7_ScratchRemoved ==
    /\ tmpExists => tmpCreated
    /\ pc = "done" => ~tmpExists /\ ~tarFile.exists
    /\ pc # "done" /\ tmpCreated => tmpExists

\* The run created the scratch directory and then panicked in the stream
\* closure after a chunk was written.
C7_Witness ==
    /\ pc = "done"
    /\ result = "panic"
    /\ tmpCreated
    /\ stream # <<>>
    /\ ~tmpExists

----------------------------------------------------------------------------
(* C8 *)

\* The archive has been unpacked and the remove_file after it has run.
OuterUnpackOver ==
    /\ scratch.unpacked
    /\ pc # "remove_tar"
    /\ ~(pc = "done" /\ errKind = "remove_tar")

\* C8: the archive file is deleted after the outer unpack exactly when this
\* run downloaded it; a caller-supplied archive is used as it is, no archive
\* file is created for it, and it still exists after the run.
C8_OnlyDownloadedArchiveDeleted ==
    /\ tar_path = "user" => userFile = initial.userFile /\ ~tarFile.exists
    /\ tar_path = "fetched" /\ OuterUnpackOver => ~tarFile.exists
    /\ tar_path = "fetched" => userFile = initial.userFile

----------------------------------------------------------------------------
(* C9 *)

RECURSIVE Compose(_, _)
Compose(dir, names) ==
    IF names = <<>>
      THEN dir
      ELSE Compose(Extract(dir, LayerArchive(Head(names))), Tail(names))

\* C9: when a layer fails (its archive cannot be opened, or its unpack
\* fails), that failure is the last thing that happens to any layer and the
\* run has ended with an error.  Every earlier layer has ended and its
\* effects are in the output directory: the directory is the composite of
\* the layers before the failed one, plus the entries of the failed layer
\* extracted before the failure.  No later layer is started and
\* write_entrypoint never runs.
C9_NoRollback ==
    /\ \A i \in DOMAIN events :
          events[i][1] = "fail" =>
            LET N == (i + 1) \div 2
                before == Compose(initial.outDir, SubSeq(manifest.layers, 1, N - 1))
                es == LayerArchive(manifest.layers[N])
            IN /\ i = Len(events)
               /\ pc = "done" /\ result = "err"
               /\ errKind = (IF i % 2 = 1 THEN "open_layer" ELSE "unpack_layer")
               /\ layerIdx = N
               /\ \A k \in 1..(N - 1) : events[2 * k] = <<"end", manifest.layers[k]>>
               /\ \E n \in {0} \cup (IF i % 2 = 1 THEN {} ELSE 0..(Len(es) - 1)) :
                     outDir = Extract(before, SubSeq(es, 1, n))
               /\ config = <<>> /\ w = <<>>
    /\ errKind \in {"open_layer", "unpack_layer"} =>
          events # <<>> /\ events[Len(events)][1] = "fail"

\* The second of three layers failed after its first entry was extracted:
\* a.tar's f1 is still there, bad.tar's f2 replaced a.tar's, b.tar never ran.
C9_Witness ==
    /\ pc = "done" /\ errKind = "unpack_layer"
    /\ manifest.layers = <<"a.tar", "bad.tar", "b.tar">>
    /\ outDir["f1"] = VersionIn("a.tar", "f1")
    /\ outDir["f2"] = MkFile(<<Line("x2")>>, DefaultMode)
    /\ outDir[EntrypointName] = initial.outDir[EntrypointName]

----------------------------------------------------------------------------
(* C10 *)

\* C10: while the export stream is being consumed the archive file on disk
\* holds exactly the chunks received so far, concatenated in arrival order,
\* and nothing of them is left in the writer's buffer; when
\* fetch_archive has returned Ok the file holds all chunks of the stream,
\* until extract_layers removes it.
C10_ChunksInOrder ==
    /\ pc = "stream" =>
          tarFile.exists /\ tarFile.data = Flatten(stream) /\ writer = <<>>
    /\ tar_path = "fetched" /\ pc \in {"open_tar", "unpack_tar", "remove_tar"} =>
          tarFile.exists /\ tarFile.data = Flatten(stream)
    /\ stream # <<>> => daemonLog = <<"connect", "inspect", "export">>

\* Two different chunks arrived and the finished file holds them in order.
C10_Witness ==
    /\ pc = "open_tar"
    /\ stream = << <<2, 3>>, <<1>> >>
    /\ tarFile.data = <<2, 3, 1>>

----------------------------------------------------------------------------
(* C11 *)

\* The script as the claim lists it, line by line: the shebang, the env
\* entries, "cd <workingDir>", the cmd tokens.
ExpectedScript(cfg) ==
    LET ne == Len(cfg.env)
        nc == Len(cfg.cmd)
    IN [i \in 1..(ne + nc + 2) |->
          IF i = 1 THEN <<"#!/bin/bash">>
          ELSE IF i <= ne + 1 THEN <<cfg.env[i - 1]>>
          ELSE IF i = ne + 2 THEN <<"cd ", cfg.working_dir>>
          ELSE <<cfg.cmd[i - ne - 2]>>]

IsPrefix(s, t) == Len(s) <= Len(t) /\ s = SubSeq(t, 1, Len(s))

\* write_entrypoint ran to its Ok(()).
EntrypointOk == pc = "done" /\ result = "ok" /\ opts.write_entrypoint

----------------------------------------------------------------------------
(* C12 *)

\* The pipeline stage a position of the run belongs to: 0 set-up, 1 acquire,
\* 2 unpack the outer archive, 3 read the manifest, 4 composite the layers,
\* 5 the test of the entrypoint flag, 6 read the config and write the
\* entrypoint, 7 the run has ended.
Stage(l) ==
    CASE l \in {"main", "tempdir", "select"} -> 0
      [] l \in {"connect", "inspect", "export", "create_tar", "stream"} -> 1
      [] l \in {"open_tar", "unpack_tar", "remove_tar"} -> 2
      [] l = "read_manifest" -> 3
      [] l \in {"loop", "unpack_layer"} -> 4
      [] l = "check_entrypoint" -> 5
      [] l \in {"read_config", "create_entrypoint", "write_script",
                "set_permissions", "return"} -> 6
      [] OTHER -> 7

\* C12: the stages of a run follow each other strictly in the order acquire,
\* unpack outer archive, read manifest, composite layers, and (only with the
\* flag) read config and write entrypoint.  Every step stays in its stage,
\* enters the next stage, or ends the run; a stage is entered only from the
\* stage before it (a caller-supplied archive needs no fetch, so unpacking
\* follows the set-up directly) and only with that stage's result in hand;
\* a run ends Ok only out of the last stage; a failure ends the run at once,
\* and a run that has ended takes no further step: nothing is retried.
C12_StagesSequential ==
    [][ LET s == Stage(pc)
            t == Stage(pc')
        IN /\ pc # "done"
           /\ t >= s
           /\ (pc' = "done") = (result' # "running")
           /\ t > s /\ t < 7 =>
                /\ result' = "running"
                /\ \/ t = s + 1
                   \/ s = 0 /\ t = 2 /\ opts.image_file # None
           /\ t = 1 => opts.image_file = None /\ opts.image_name # None
           /\ s < 2 /\ t = 2 => IF tar_path = "fetched" THEN tarFile'.exists ELSE s = 0
           /\ t = 3 => scratch'.unpacked
           /\ t = 4 => manifest' # NoManifest
           /\ t = 5 => Len(events') = 2 * Len(manifest'.layers)
           /\ t = 6 => opts.write_entrypoint
           /\ result' = "ok" =>
                \/ s = 5 /\ ~opts.write_entrypoint
                \/ pc = "return"
      ]_vars

\* A whole pipeline ran: fetched from the daemon, two layers, entrypoint written.
C12_Witness ==
    /\ pc = "done" /\ result = "ok"
    /\ opts.write_entrypoint
    /\ daemonLog = <<"connect", "inspect", "export">>
    /\ tarOpened = "fetched"
    /\ Len(manifest.layers) = 2 /\ Len(events) = 4
    /\ config # <<>>

----------------------------------------------------------------------------
(* C13 *)

\* C13: write_entrypoint never returns success when the script did not
\* reach the file: after an Ok run with the entrypoint flag, the file holds
\* the whole script.  (An I/O error while the content is written must
\* surface as an error of the run.)
C13_WriteErrorIsFatal ==
    EntrypointOk => outDir[EntrypointName].data = ExpectedScript(config[1])

----------------------------------------------------------------------------
(* C14 *)

\* C14: the daemon is asked in the order connect, existence check, export,
\* each at most once.  The export is requested, and the archive file
\* created, only after the existence check has succeeded.  When the
\* connection fails or the image is not found, no export is requested, no
\* archive file exists or has received a chunk, nothing is unpacked, and the
\* run has ended with an error.
C14_InspectBeforeExport ==
    /\ daemonLog \in { <<>>, <<"connect_failed">>, <<"connect">>,
                       <<"connect", "inspect_failed">>, <<"connect", "inspect">>,
                       <<"connect", "inspect", "export">> }
    /\ (pc \in {"create_tar", "stream"} \/ tarFile.exists \/ stream # <<>>
          \/ tarOpened = "fetched") =>
          daemonLog = <<"connect", "inspect", "export">>
    /\ (daemonLog # <<>> /\ daemonLog[Len(daemonLog)] \in {"connect_failed", "inspect_failed"}) =>
          /\ pc = "done" /\ result = "err"
          /\ errKind = (IF Len(daemonLog) = 1 THEN "connect" ELSE "inspect")
          /\ ~tarFile.exists /\ stream = <<>> /\ writer = <<>>
          /\ tarOpened = "none" /\ ~scratch.unpacked
          /\ outDir = initial.outDir

\* The daemon answered that the image does not exist and the run ended.
C14_Witness ==
    /\ pc = "done" /\ errKind = "inspect"
    /\ daemonLog = <<"connect", "inspect_failed">>

----------------------------------------------------------------------------
(* C15 *)

\* write_entrypoint has created (or truncated) the entrypoint file.
EntrypointCreated ==
    \/ pc \in {"write_script", "set_permissions", "return"}
    \/ pc = "done" /\ errKind \in {"write_entrypoint", "set_permissions"}
    \/ EntrypointOk

\* C15: the entrypoint file is created only in a run with the flag set in
\* which every earlier stage succeeded (all layers applied, config read);
\* and since it is written after the last layer, after a successful run with
\* the flag the file at the entrypoint path is the generated script, with
\* mode 0755, whatever was at that path before or was put there by a layer.
C15_EntrypointIsFinalContent ==
    /\ EntrypointCreated =>
          /\ opts.write_entrypoint
          /\ config # <<>>
          /\ Len(events) = 2 * Len(manifest.layers)
    /\ EntrypointOk =>
          outDir[EntrypointName] = MkFile(ExpectedScript(config[1]), ExecMode)

----------------------------------------------------------------------------
(* C16 *)

\* C16: for every image name without a version separator, once the image
\* was found and its export requested, fetch_archive can create its one
\* archive file in the scratch dir (the disk permitting) and go on to consume
\* the stream; and when it has returned, that file is there to be unpacked.
C16_FetchCreatesArchive ==
    /\ pc = "create_tar" => ENABLED (CreateTarFile /\ pc' = "stream")
    /\ pc = "open_tar" /\ tar_path = "fetched" => tarFile.exists

----------------------------------------------------------------------------
(* C17 *)

\* The unpacked archive has no manifest.json that read_manifest accepts:
\* the file is missing, is malformed, or does not hold exactly one entry.
ManifestUnreadable ==
    /\ scratch.unpacked
    /\ \/ scratch.manifest_json.kind # "array"
       \/ Len(scratch.manifest_json.entries) # 1

\* C17: when manifest.json is missing, malformed or does not hold exactly
\* one entry, no layer is ever opened or applied and the output directory
\* stays exactly as it was before the run; the run ends with an error at the
\* manifest (or already at the removal of the archive).
C17_ManifestFailureLeavesOutput ==
    /\ ManifestUnreadable =>
          /\ outDir = initial.outDir
          /\ events = <<>>
          /\ manifest = NoManifest
          /\ \/ pc \in {"remove_tar", "read_manifest"}
             \/ /\ pc = "done" /\ result = "err"
                /\ errKind \in {"remove_tar", "open_manifest", "parse_manifest",
                                "manifest_count"}
    /\ errKind \in {"open_manifest", "parse_manifest", "manifest_count"} =>
          ManifestUnreadable /\ outDir = initial.outDir

\* A malformed manifest.json ended the run and the older files of the
\* output directory are as they were.
C17_Witness ==
    /\ pc = "done" /\ errKind = "parse_manifest"
    /\ scratch.manifest_json.kind = "malformed"
    /\ initial.outDir # EmptyDir
    /\ outDir = initial.outDir

----------------------------------------------------------------------------
(* C18 *)

\* C18: when the config blob cannot be opened or parsed (missing, malformed
\* JSON, a required field missing), write_entrypoint fails before it creates
\* or truncates the entrypoint file: the run ends with an error, the file at
\* the entrypoint path is what the layers (or, failing those, the time
\* before the run) left there, and every path holds the composite of all
\* layers.
C18_ConfigFailureLeavesEntrypoint ==
    errKind \in {"open_config", "parse_config"} =>
        /\ pc = "done" /\ result = "err"
        /\ opts.write_entrypoint
        /\ config = <<>> /\ w = <<>>
        /\ Len(events) = 2 * Len(manifest.layers)
        /\ \A p \in Paths : outDir[p] = UnionOfLayers(p)

\* The config could not be parsed; the entrypoint.sh that layer b.tar wrote
\* and the other files of the layers are still there.
C18_Witness ==
    /\ pc = "done" /\ errKind = "parse_config"
    /\ manifest.layers = <<"a.tar", "b.tar">>
    /\ outDir[EntrypointName] = VersionIn("b.tar", EntrypointName)
    /\ outDir["f2"] = VersionIn("a.tar", "f2")

====
